---- MODULE Spec2Model ----
(***************************************************************************)
(* hello_qmi.py: a command-line utility that builds a coin-toss Quil       *)
(* program, compiles and runs it on a named quantum computer and prints    *)
(* the results, plus the standalone helper get_active_lattice.             *)
(*                                                                         *)
(* A Python str that the program processes or prints is modelled as the   *)
(* sequence of its Unicode code points ("a" is <<97>>, " a\n" is           *)
(* <<32, 97, 10>>); names of fields, functions and instructions are TLA+   *)
(* strings.  Python's None and every value that may be None are records,   *)
(* so that they can be compared.  The pyQuil and rpcq calls are the environment: each either   *)
(* raises or returns a value drawn from a small set.                       *)
(***************************************************************************)
EXTENDS Integers, Sequences, FiniteSets

VARIABLES
    pc,                \* position of the main flow
    sys_argv,          \* sys.argv of the process (sys_argv[1] is Python's argv[0])
    kwargs,            \* keyword arguments hello_qmi was called with
    device_name,       \* hello_qmi parameter
    shots,             \* hello_qmi parameter
    program,           \* local `program` of hello_qmi
    lattices,          \* the registry list_lattices() returned, kept until the circuit is built
    device,            \* local `device` of hello_qmi
    qc,                \* local `qc` of hello_qmi
    compiled_program,  \* local `compiled_program` of hello_qmi
    results,           \* local `results` of hello_qmi
    stdout,            \* characters written to standard output
    error,             \* the uncaught error that ended the process, if any
    calls,             \* the calls the main flow made, in order
    probe              \* the last get_active_lattice invocation, if any

vars == <<pc, sys_argv, kwargs, device_name, shots, program, lattices, device, qc,
          compiled_program, results, stdout, error, calls, probe>>

-----------------------------------------------------------------------------
(* Bounds of the model *)

MaxArgLen == 3
MaxQubits == 2
MaxShots == 2

-----------------------------------------------------------------------------
(* Values *)

NoneValue == [tag |-> "None"]

NoError == [tag |-> "none"]

Raised(where) == [tag |-> "error", from |-> where]

\* "9q-generic-qvm"
DefaultDeviceName == <<57, 113, 45, 103, 101, 110, 101, 114, 105, 99, 45, 113, 118, 109>>

DefaultShots == 5

\* "hello_qmi.py"
ScriptName == <<104, 101, 108, 108, 111, 95, 113, 109, 105, 46, 112, 121>>

\* the code points c with chr(c).isspace(), which str.strip() removes:
\* U+0009-000D, U+001C-001F, U+0020, U+0085, U+00A0, U+1680, U+2000-200A, U+2028,
\* U+2029, U+202F, U+205F, U+3000
Whitespace ==
    (9..13) \cup (28..31) \cup {32, 133, 160, 5760} \cup (8192..8202)
        \cup {8232, 8233, 8239, 8287, 12288}

RECURSIVE lstrip(_)
lstrip(s) == IF s = <<>> THEN s
             ELSE IF Head(s) \in Whitespace THEN lstrip(Tail(s)) ELSE s

RECURSIVE rstrip(_)
rstrip(s) == IF s = <<>> THEN s
             ELSE IF s[Len(s)] \in Whitespace THEN rstrip(SubSeq(s, 1, Len(s) - 1)) ELSE s

\* variant: only leading whitespace is removed
strip_left_only(s) == lstrip(s)

strip(s) == rstrip(lstrip(s))

-----------------------------------------------------------------------------
(* The Quil program under construction *)

HalfPi == "pi/2"

Program == [instructions |-> <<>>, num_shots |-> 1]

inst(p, instruction) == [p EXCEPT !.instructions = Append(@, instruction)]

Pragma(command, args) == [op |-> "PRAGMA", command |-> command, args |-> args]

Declare(name, memory_type, size) ==
    [op |-> "DECLARE", name |-> name, memory_type |-> memory_type, size |-> size]

MemoryReference(name, offset) == [name |-> name, offset |-> offset]

RX(angle, qubit) == [op |-> "RX", angle |-> angle, qubit |-> qubit]

MEASURE(qubit, classical_reg) ==
    [op |-> "MEASURE", qubit |-> qubit, classical_reg |-> classical_reg]

\* pyQuil accepts a non-negative integer as a qubit and raises on anything else
ValidQubit(q) == q \in Nat

declare(p, name, memory_type, size) == inst(p, Declare(name, memory_type, size))

\* variant: the shot count is left at its default
wrap_keeps_num_shots(p, n) == p

wrap_in_numshots_loop(p, n) == [p EXCEPT !.num_shots = n]

\* lines 60-62: the empty program plus the rewiring pragma
InitialProgram == inst(Program, Pragma("INITIAL_REWIRING", <<"\"GREEDY\"">>))

-----------------------------------------------------------------------------
(* The registry of lattices and the device resolver *)

\* device['qubits'] is a mapping; its entries in declared order
keys(qubits) == [i \in 1..Len(qubits) |-> qubits[i].key]

values(qubits) == [i \in 1..Len(qubits) |-> qubits[i].value]

HasQubits(dev) == "qubits" \in DOMAIN dev

\* lines 29-32, on the registry list_lattices() returned
query_device(registry, name) ==
    IF name \in DOMAIN registry THEN registry[name] ELSE NoneValue

-----------------------------------------------------------------------------
(* The circuit builder, lines 64-90.  A builder state is the program so    *)
(* far and the error raised, if any.                                       *)

RECURSIVE rx_loop(_, _)
rx_loop(st, qubits) ==
    IF qubits = <<>> THEN st
    ELSE IF ValidQubit(Head(qubits))
         THEN rx_loop([st EXCEPT !.program = inst(@, RX(HalfPi, Head(qubits)))], Tail(qubits))
         ELSE [st EXCEPT !.error = Raised("RX")]

RECURSIVE measure_loop(_, _, _)
measure_loop(st, qubits, idx) ==
    IF qubits = <<>> THEN st
    ELSE IF ValidQubit(Head(qubits))
         THEN measure_loop(
                  [st EXCEPT !.program = inst(@, MEASURE(Head(qubits), MemoryReference("ro", idx)))],
                  Tail(qubits), idx + 1)
         ELSE [st EXCEPT !.error = Raised("MEASURE")]

\* variant: the mapping's keys instead of its values
layout_qubits_by_key(dev) == keys(dev.qubits)

\* the qubits the real-layout path acts on: device['qubits'].values()
layout_qubits(dev) == values(dev.qubits)

\* lines 67-71
build_from_device(p, dev) ==
    IF ~HasQubits(dev) THEN [program |-> p, error |-> Raised("device['qubits']")]
    ELSE LET declared == declare(p, "ro", "BIT", Len(dev.qubits))
             rotated == rx_loop([program |-> declared, error |-> NoError], layout_qubits(dev))
         IN  IF rotated.error # NoError THEN rotated
             ELSE measure_loop(rotated, layout_qubits(dev), 0)

\* variant: qubits 1, 2, 3 instead of 0, 1, 2
build_fallback_shifted(p) ==
    LET declared == declare(p, "ro", "BIT", 3)
        r1 == inst(declared, RX(HalfPi, 1))
        r2 == inst(r1, RX(HalfPi, 2))
        r3 == inst(r2, RX(HalfPi, 3))
        m1 == inst(r3, MEASURE(1, MemoryReference("ro", 0)))
        m2 == inst(m1, MEASURE(2, MemoryReference("ro", 1)))
    IN  inst(m2, MEASURE(3, MemoryReference("ro", 2)))

\* lines 77-87
build_fallback(p) ==
    LET declared == declare(p, "ro", "BIT", 3)
        r0 == inst(declared, RX(HalfPi, 0))
        r1 == inst(r0, RX(HalfPi, 1))
        r2 == inst(r1, RX(HalfPi, 2))
        m0 == inst(r2, MEASURE(0, MemoryReference("ro", 0)))
        m1 == inst(m0, MEASURE(1, MemoryReference("ro", 1)))
    IN  inst(m1, MEASURE(2, MemoryReference("ro", 2)))

\* lines 64-90: branch on the resolved layout, then set the shot count
build_circuit(p, dev, n) ==
    LET built == IF dev # NoneValue THEN build_from_device(p, dev)
                 ELSE [program |-> build_fallback(p), error |-> NoError]
    IN  IF built.error # NoError THEN built
        ELSE [built EXCEPT !.program = wrap_in_numshots_loop(@, n)]

-----------------------------------------------------------------------------
(* The greeting, lines 101-102 *)

\* "Your"
TextYour == <<89, 111, 117, 114>>

\* " virtual"
TextVirtual == <<32, 118, 105, 114, 116, 117, 97, 108>>

\* " quantum "
TextQuantum == <<32, 113, 117, 97, 110, 116, 117, 109, 32>>

\* "computer, "
TextComputer == <<99, 111, 109, 112, 117, 116, 101, 114, 44, 32>>

\* ", greets you with:\n"
TextGreets == <<44, 32, 103, 114, 101, 101, 116, 115, 32, 121, 111, 117, 32, 119, 105, 116, 104, 58, 10>>

\* ", greets you with:"
TextGreetsNoNewline == <<44, 32, 103, 114, 101, 101, 116, 115, 32, 121, 111, 117, 32, 119, 105, 116, 104, 58>>

\* isinstance(qc.qam, QVM)
isinstance_QVM(qam) == qam = "QVM"

\* variant: the qualifier chosen by the registry lookup instead of the handle
greeting_by_registry(handle, name) ==
    TextYour \o (IF device = NoneValue THEN TextVirtual ELSE <<>>)
        \o TextQuantum \o TextComputer \o name \o TextGreets

\* variant: no newline after the greeting
greeting_on_one_line(handle, name) ==
    TextYour \o (IF isinstance_QVM(handle.qam) THEN TextVirtual ELSE <<>>)
        \o TextQuantum \o TextComputer \o name \o TextGreetsNoNewline

\* the f-string of lines 101-102
greeting(handle, name) ==
    TextYour \o (IF isinstance_QVM(handle.qam) THEN TextVirtual ELSE <<>>)
        \o TextQuantum \o TextComputer \o name \o TextGreets

\* str(results): the printed representation the results object carries
str(obj) == obj.str

\* print(text, obj): the arguments separated by a space, then a newline
print(out, text, obj) == out \o text \o <<32>> \o str(obj) \o <<10>>

-----------------------------------------------------------------------------
(* get_active_lattice, lines 35-46 *)

Return(value) == [raised |-> NoError, value |-> value]

Raise(where) == [raised |-> Raised(where), value |-> NoneValue]

\* the body of the try block, lines 43-44, against an environment
try_body(env) ==
    IF env.config = "raise" THEN Raise("PyquilConfig")
    ELSE IF env.client = "raise" THEN Raise("Client")
    ELSE IF env.call = "raise" THEN Raise("call")
    ELSE IF env.call = "timeout" THEN Raise("timeout")
    ELSE IF env.response.tag # "dict" THEN Raise("TypeError")
    ELSE IF "lattice_name" \notin DOMAIN env.response THEN Raise("KeyError")
    ELSE Return(env.response.lattice_name)

\* variant: except KeyError instead of a bare except
get_active_lattice_catching_key_error(env) ==
    LET r == try_body(env)
    IN  IF r.raised = Raised("KeyError") THEN Return(NoneValue) ELSE r

\* try: ... except: return None
get_active_lattice(env) ==
    LET r == try_body(env)
    IN  IF r.raised # NoError THEN Return(NoneValue) ELSE r

-----------------------------------------------------------------------------
(* The inputs and the environment *)

SeqsUpTo(S, n) == UNION {[1..k -> S] : k \in 0..n}

\* "a", space, vertical tab, no-break space
ArgChars == {97, 32, 11, 160}

ExtraArg == <<98>>

\* sys.argv: the script name, then no argument, one argument, or a short argument and
\* another
Argvs ==
    {<<ScriptName>>}
        \cup {<<ScriptName, a>> : a \in SeqsUpTo(ArgChars, MaxArgLen)}
        \cup {<<ScriptName, a, ExtraArg>> : a \in SeqsUpTo(ArgChars, 1)}

\* "a", "aa"
LatticeNames == {<<97>>, <<97, 97>>}

\* "a", "b"
CallNames == {<<97>>, <<98>>}

NoKwargs == <<>>

\* hello_qmi(), hello_qmi(device_name=n), hello_qmi(shots=k), hello_qmi(device_name=n, shots=k)
CallKwargs ==
    {NoKwargs}
        \cup {[device_name |-> n] : n \in CallNames}
        \cup {[shots |-> k] : k \in 0..MaxShots}
        \cup {[device_name |-> n, shots |-> k] : n \in CallNames, k \in 0..MaxShots}

QubitIds == {-1, 0, 7}

\* a layout's qubits: the i-th declared entry has key i-1 and any qubit id as value
QubitMappings ==
    UNION {{[i \in 1..k |-> [key |-> i - 1, value |-> v[i]]] : v \in [1..k -> QubitIds]} : k \in 0..MaxQubits}

Layouts == {[tag |-> "lattice", qubits |-> m] : m \in QubitMappings}
               \cup {[tag |-> "lattice"]}

OtherLattice == [tag |-> "lattice", qubits |-> <<[key |-> 0, value |-> 3]>>]

\* list_lattices(): any subset of the names, "a" with any layout
Registries ==
    {[n \in S |-> IF n = <<97>> THEN l ELSE OtherLattice] : S \in SUBSET LatticeNames, l \in Layouts}

QamTypes == {"QVM", "QPU"}

\* two results objects, printed as "R0" and "R1"
ResultValues == {[tag |-> "ndarray", str |-> <<82, 48>>], [tag |-> "ndarray", str |-> <<82, 49>>]}

StrValue(chars) == [tag |-> "str", chars |-> chars]

Responses == {[tag |-> "dict", lattice_name |-> StrValue(n)] : n \in {<<97>>}}
                 \cup {[tag |-> "dict"], NoneValue}

ProbeEnvs ==
    {[config |-> "raise", client |-> "unreached", call |-> "unreached", response |-> NoneValue],
     [config |-> "ok", client |-> "raise", call |-> "unreached", response |-> NoneValue],
     [config |-> "ok", client |-> "ok", call |-> "raise", response |-> NoneValue],
     [config |-> "ok", client |-> "ok", call |-> "timeout", response |-> NoneValue]}
        \cup {[config |-> "ok", client |-> "ok", call |-> "ok", response |-> r] : r \in Responses}

NotCalled == [called |-> FALSE]

-----------------------------------------------------------------------------
(* The state machine *)

Init ==
    /\ pc = "idle"
    /\ sys_argv = <<>>
    /\ kwargs = NoKwargs
    /\ device_name = <<>>
    /\ shots = 0
    /\ program = NoneValue
    /\ lattices = NoneValue
    /\ device = NoneValue
    /\ qc = NoneValue
    /\ compiled_program = NoneValue
    /\ results = NoneValue
    /\ stdout = <<>>
    /\ error = NoError
    /\ calls = <<>>
    /\ probe = NotCalled

Call(fn, arg, ret) == [fn |-> fn, arg |-> arg, ret |-> ret]

\* an uncaught error ends the process
Fail(where) ==
    /\ pc' = "failed"
    /\ error' = Raised(where)

\* parameter binding of hello_qmi, line 49
Bind(kw) ==
    /\ kwargs' = kw
    /\ device_name' = IF "device_name" \in DOMAIN kw THEN kw.device_name ELSE DefaultDeviceName
    /\ shots' = IF "shots" \in DOMAIN kw THEN kw.shots ELSE DefaultShots
    /\ pc' = "start"

\* lines 105-110: the command line
Main ==
    /\ pc = "idle"
    /\ \E av \in Argvs :
        /\ sys_argv' = av
        /\ IF Len(av) > 1 THEN Bind([device_name |-> strip(av[2])]) ELSE Bind(NoKwargs)
    /\ UNCHANGED <<program, lattices, device, qc, compiled_program, results, stdout, error, calls, probe>>

\* hello_qmi called as a function of the module
CallHelloQmi ==
    /\ pc = "idle"
    /\ \E kw \in CallKwargs : Bind(kw)
    /\ UNCHANGED <<sys_argv, program, lattices, device, qc, compiled_program, results, stdout, error,
                   calls, probe>>

\* lines 60-63: the program is initialised, then the registry is fetched and searched
QueryDevice ==
    /\ pc = "start"
    /\ program' = InitialProgram
    /\ \/ /\ Fail("list_lattices")
          /\ calls' = Append(calls, Call("query_device", device_name, Raised("list_lattices")))
          /\ UNCHANGED <<lattices, device>>
       \/ \E registry \in Registries :
            /\ lattices' = registry
            /\ device' = query_device(registry, device_name)
            /\ calls' = Append(calls, Call("query_device", device_name, device'))
            /\ pc' = "build"
            /\ UNCHANGED error
    /\ UNCHANGED <<sys_argv, kwargs, device_name, shots, qc, compiled_program, results, stdout,
                   probe>>

\* lines 64-90
BuildCircuit ==
    /\ pc = "build"
    /\ LET built == build_circuit(program, device, shots)
       IN  /\ program' = built.program
           /\ IF built.error # NoError
              THEN pc' = "failed" /\ error' = built.error
              ELSE pc' = "get_qc" /\ UNCHANGED error
    /\ lattices' = NoneValue
    /\ UNCHANGED <<sys_argv, kwargs, device_name, shots, device, qc, compiled_program, results,
                   stdout, calls, probe>>

\* variant: the probe chooses the device when it returns a name
GetQc_wired ==
    /\ pc = "get_qc"
    /\ \E env \in ProbeEnvs, qam \in QamTypes :
        LET active == get_active_lattice(env)
            name == IF active.value # NoneValue THEN active.value.chars ELSE device_name
        IN  /\ probe' = [called |-> TRUE, env |-> env, outcome |-> active]
            /\ qc' = [tag |-> "QuantumComputer", name |-> name, qam |-> qam]
            /\ calls' = Append(calls, Call("get_qc", name, qc'))
            /\ pc' = "compile"
    /\ UNCHANGED <<sys_argv, kwargs, device_name, shots, program, lattices, device,
                   compiled_program, results, stdout, error>>

\* line 93
GetQc ==
    /\ pc = "get_qc"
    /\ \/ /\ Fail("get_qc")
          /\ calls' = Append(calls, Call("get_qc", device_name, Raised("get_qc")))
          /\ UNCHANGED qc
       \/ \E qam \in QamTypes :
            /\ qc' = [tag |-> "QuantumComputer", name |-> device_name, qam |-> qam]
            /\ calls' = Append(calls, Call("get_qc", device_name, qc'))
            /\ pc' = "compile"
            /\ UNCHANGED error
    /\ UNCHANGED <<sys_argv, kwargs, device_name, shots, program, lattices, device, compiled_program,
                   results, stdout, probe>>

\* variant: a compile error is swallowed and the flow goes on
Compile_swallowing ==
    /\ pc = "compile"
    /\ \/ /\ compiled_program' = NoneValue
          /\ calls' = Append(calls, Call("compile", program, Raised("compile")))
       \/ /\ compiled_program' = [tag |-> "executable", program |-> program]
          /\ calls' = Append(calls, Call("compile", program, compiled_program'))
    /\ pc' = "run"
    /\ UNCHANGED <<sys_argv, kwargs, device_name, shots, program, lattices, device, qc, results, stdout,
                   error, probe>>

\* line 96
Compile ==
    /\ pc = "compile"
    /\ \/ /\ Fail("compile")
          /\ calls' = Append(calls, Call("compile", program, Raised("compile")))
          /\ UNCHANGED compiled_program
       \/ /\ compiled_program' = [tag |-> "executable", program |-> program]
          /\ calls' = Append(calls, Call("compile", program, compiled_program'))
          /\ pc' = "run"
          /\ UNCHANGED error
    /\ UNCHANGED <<sys_argv, kwargs, device_name, shots, program, lattices, device, qc, results, stdout,
                   probe>>

\* variant: run is given the program instead of the executable
Run_uncompiled ==
    /\ pc = "run"
    /\ \/ /\ Fail("run")
          /\ calls' = Append(calls, Call("run", program, Raised("run")))
          /\ UNCHANGED results
       \/ \E r \in ResultValues :
            /\ results' = r
            /\ calls' = Append(calls, Call("run", program, r))
            /\ pc' = "print"
            /\ UNCHANGED error
    /\ UNCHANGED <<sys_argv, kwargs, device_name, shots, program, lattices, device, qc, compiled_program,
                   stdout, probe>>

\* line 99
Run ==
    /\ pc = "run"
    /\ \/ /\ Fail("run")
          /\ calls' = Append(calls, Call("run", compiled_program, Raised("run")))
          /\ UNCHANGED results
       \/ \E r \in ResultValues :
            /\ results' = r
            /\ calls' = Append(calls, Call("run", compiled_program, r))
            /\ pc' = "print"
            /\ UNCHANGED error
    /\ UNCHANGED <<sys_argv, kwargs, device_name, shots, program, lattices, device, qc, compiled_program,
                   stdout, probe>>

\* lines 101-102
PrintResults ==
    /\ pc = "print"
    /\ stdout' = print(stdout, greeting(qc, device_name), results)
    /\ calls' = Append(calls, Call("print", results, NoneValue))
    /\ pc' = "done"
    /\ UNCHANGED <<sys_argv, kwargs, device_name, shots, program, lattices, device, qc, compiled_program,
                   results, error, probe>>

\* lines 35-46: the probe, called by a user of the module; execution is single-threaded,
\* so never while hello_qmi is running
GetActiveLattice ==
    /\ pc \in {"idle", "done", "failed"}
    /\ \E env \in ProbeEnvs :
        probe' = [called |-> TRUE, env |-> env, outcome |-> get_active_lattice(env)]
    /\ UNCHANGED <<pc, sys_argv, kwargs, device_name, shots, program, lattices, device, qc,
                   compiled_program, results, stdout, error, calls>>

Next ==
    \/ Main
    \/ CallHelloQmi
    \/ QueryDevice
    \/ BuildCircuit
    \/ GetQc
    \/ Compile
    \/ Run
    \/ PrintResults
    \/ GetActiveLattice

Spec == Init /\ [][Next]_vars

-----------------------------------------------------------------------------
(* Properties *)

RewiringPragma == [op |-> "PRAGMA", command |-> "INITIAL_REWIRING", args |-> <<"\"GREEDY\"">>]

RxHalfPi(q) == [op |-> "RX", angle |-> "pi/2", qubit |-> q]

MeasureInto(q, k) ==
    [op |-> "MEASURE", qubit |-> q, classical_reg |-> [name |-> "ro", offset |-> k]]

DeclareRo(n) == [op |-> "DECLARE", name |-> "ro", memory_type |-> "BIT", size |-> n]

CountOp(ins, op) == Cardinality({i \in 1..Len(ins) : ins[i].op = op})

\* p declares n bits and rotates, then measures, the qubits qs in order, qs[i] into ro[i-1]
CircuitOver(p, qs) ==
    LET ins == p.instructions
        n == Len(qs)
    IN  /\ Len(ins) = 2 + 2 * n
        /\ ins[2] = DeclareRo(n)
        /\ CountOp(ins, "RX") = n
        /\ CountOp(ins, "MEASURE") = n
        /\ \A i \in 1..n :
            /\ ins[2 + i] = RxHalfPi(qs[i])
            /\ ins[2 + n + i] = MeasureInto(qs[i], i - 1)

\* the step that completes the construction of the circuit
CircuitCompleted == pc = "build" /\ pc' = "get_qc"

\* C1: when the device name is a key of the registry list_lattices() returned, the circuit
\* hello_qmi builds declares len(layout['qubits']) bits of 'ro' and holds exactly one
\* RX(pi/2) and one MEASURE per entry, on the entries' values (not keys), the i-th entry
\* in declared order measured into readout[i].
C1_LayoutCircuit ==
    [][(CircuitCompleted /\ device_name \in DOMAIN lattices) =>
          LET entries == lattices[device_name].qubits
          IN  CircuitOver(program', [i \in 1..Len(entries) |-> entries[i].value])]_vars

C1_Witness ==
    /\ pc = "get_qc"
    /\ device # NoneValue
    /\ Len(device.qubits) = 2
    /\ device.qubits[1].value = 7
    /\ device.qubits[2].value = 0
    /\ program.instructions[5] = MeasureInto(7, 0)

\* C2: when the device name is no key of the registry (query_device returns None), the
\* circuit declares exactly 3 bits of 'ro', applies RX(pi/2) to qubits 0, 1, 2, measures
\* qubit k into readout[k], and touches no other qubit.
C2_FallbackCircuit ==
    [][(CircuitCompleted /\ device_name \notin DOMAIN lattices) =>
          /\ device = NoneValue
          /\ CircuitOver(program', <<0, 1, 2>>)
          /\ \A i \in 3..Len(program'.instructions) :
                program'.instructions[i].qubit \in {0, 1, 2}]_vars

C2_Witness ==
    /\ pc = "get_qc"
    /\ device = NoneValue
    /\ device_name = <<97>>
    /\ Len(program.instructions) = 8

CompileCalls == {i \in 1..Len(calls) : calls[i].fn = "compile"}

\* C3: on both branches and for every shots value, the circuit handed to compile has the
\* INITIAL_REWIRING "GREEDY" pragma as its first instruction, before any declaration,
\* rotation or measurement, and its shot count is exactly `shots`, 5 when none is given.
C3_PragmaFirstAndShots ==
    \A i \in CompileCalls :
        LET handed == calls[i].arg
        IN  /\ handed.instructions[1] = RewiringPragma
            /\ CountOp(handed.instructions, "PRAGMA") = 1
            /\ handed.num_shots = shots
            /\ "shots" \in DOMAIN kwargs => handed.num_shots = kwargs.shots
            /\ "shots" \notin DOMAIN kwargs => handed.num_shots = 5

C3_Witness ==
    /\ CompileCalls # {}
    /\ device # NoneValue
    /\ "shots" \in DOMAIN kwargs
    /\ kwargs.shots = 2
    /\ program.num_shots = 2

\* some step of the probe fails in environment env
ProbeStepFails(env) ==
    \/ env.config # "ok"
    \/ env.client # "ok"
    \/ env.call # "ok"
    \/ env.response.tag # "dict"
    \/ "lattice_name" \notin DOMAIN env.response

\* C4: get_active_lattice never raises; when configuration loading, client construction,
\* the get_config_info call or the extraction of lattice_name fails it returns None, and
\* it returns a lattice name only when every step succeeds.
C4_ProbeNeverRaises ==
    probe.called =>
        /\ probe.outcome.raised = NoError
        /\ ProbeStepFails(probe.env) => probe.outcome.value = NoneValue
        /\ probe.outcome.value # NoneValue =>
              /\ ~ProbeStepFails(probe.env)
              /\ probe.outcome.value = probe.env.response.lattice_name

C4_Witness ==
    /\ probe.called
    /\ probe.env.call = "timeout"
    /\ probe.outcome = [raised |-> NoError, value |-> NoneValue]

CallFns == [i \in 1..Len(calls) |-> calls[i].fn]

IsPrefix(a, b) == Len(a) <= Len(b) /\ a = SubSeq(b, 1, Len(a))

FlowOrder == <<"query_device", "get_qc", "compile", "run", "print">>

\* C5: in the main flow no error is recovered or retried: a failing registry fetch,
\* circuit construction, get_qc, compile or run ends the process with that error, no
\* later step of the flow is executed, and nothing is printed.
C5_ErrorsAreFatal ==
    /\ \A i \in 1..Len(calls) :
          calls[i].ret.tag = "error" =>
              /\ i = Len(calls)
              /\ pc = "failed"
              /\ error = calls[i].ret
    /\ error # NoError => pc = "failed"
    /\ pc = "failed" =>
          /\ error # NoError
          /\ stdout = <<>>
          /\ "print" \notin {calls[i].fn : i \in 1..Len(calls)}
          /\ error.from = "list_lattices" => Len(calls) = 1
          /\ error.from \in {"RX", "MEASURE", "device['qubits']"} => Len(calls) = 1
          /\ error.from = "compile" => "run" \notin {calls[i].fn : i \in 1..Len(calls)}

C5_Witness ==
    /\ pc = "failed"
    /\ error = Raised("compile")
    /\ CallFns = <<"query_device", "get_qc", "compile">>
    /\ stdout = <<>>

\* "Your virtual quantum computer, "
VirtualPrefix == <<89, 111, 117, 114, 32, 118, 105, 114, 116, 117, 97, 108, 32, 113, 117, 97, 110, 116, 117, 109, 32, 99, 111, 109, 112, 117, 116, 101, 114, 44, 32>>

\* "Your quantum computer, "
PlainPrefix == <<89, 111, 117, 114, 32, 113, 117, 97, 110, 116, 117, 109, 32, 99, 111, 109, 112, 117, 116, 101, 114, 44, 32>>

\* C6: the printed greeting carries the "virtual" qualifier if and only if the qam of the
\* handle get_qc returned is a QVM, whether or not the device name was found in the
\* registry.
C6_VirtualIffQVM ==
    stdout # <<>> =>
        /\ IsPrefix(VirtualPrefix, stdout) <=> qc.qam = "QVM"
        /\ IsPrefix(PlainPrefix, stdout) <=> qc.qam # "QVM"

C6_Witness ==
    /\ pc = "done"
    /\ device # NoneValue
    /\ qc.qam = "QVM"
    /\ IsPrefix(VirtualPrefix, stdout)

\* c is a Unicode whitespace character
IsSpace(c) ==
    \/ c \in {9, 10, 11, 12, 13, 28, 29, 30, 31, 32, 133, 160, 5760}
    \/ c >= 8192 /\ c <= 8202
    \/ c \in {8232, 8233, 8239, 8287, 12288}

\* s is arg without its leading and trailing whitespace
Stripped(s, arg) ==
    /\ s # <<>> => ~IsSpace(s[1]) /\ ~IsSpace(s[Len(s)])
    /\ \E i \in 0..Len(arg) :
          /\ i + Len(s) <= Len(arg)
          /\ s = SubSeq(arg, i + 1, i + Len(s))
          /\ \A j \in 1..Len(arg) : (j <= i \/ j > i + Len(s)) => IsSpace(arg[j])

FromCommandLine == sys_argv # <<>>

\* ", greets you with:"
GreetsYouWith == <<44, 32, 103, 114, 101, 101, 116, 115, 32, 121, 111, 117, 32, 119, 105, 116, 104, 58>>

\* "9q-generic-qvm"
GenericQvm == <<57, 113, 45, 103, 101, 110, 101, 114, 105, 99, 45, 113, 118, 109>>

\* the name used for the registry lookup, for get_qc and in the greeting is n
NameUsedThroughout(n) ==
    /\ device_name = n
    /\ \A i \in 1..Len(calls) :
          calls[i].fn \in {"query_device", "get_qc"} => calls[i].arg = n
    /\ stdout # <<>> =>
          \/ IsPrefix(VirtualPrefix \o n \o GreetsYouWith, stdout)
          \/ IsPrefix(PlainPrefix \o n \o GreetsYouWith, stdout)

\* C7 as stated: with no command-line argument the device name is "9q-generic-qvm" and
\* the shots are 5; with an argument, that argument itself is the device name for the
\* registry lookup, get_qc and the greeting.
C7_ArgumentUsedVerbatim ==
    FromCommandLine =>
        /\ Len(sys_argv) = 1 =>
              /\ NameUsedThroughout(GenericQvm)
              /\ shots = 5
        /\ Len(sys_argv) > 1 => NameUsedThroughout(sys_argv[2])

\* C7 amended: with no command-line argument the device name is "9q-generic-qvm" and the
\* shots are 5; with an argument, the first argument with its leading and trailing
\* whitespace removed is the device name for the registry lookup, get_qc and the
\* greeting, with 5 shots.
C7_ArgumentUsedStripped ==
    FromCommandLine =>
        /\ shots = 5
        /\ Len(sys_argv) = 1 =>
              NameUsedThroughout(GenericQvm)
        /\ Len(sys_argv) > 1 =>
              /\ Stripped(device_name, sys_argv[2])
              /\ NameUsedThroughout(device_name)

C7_Witness ==
    /\ pc = "done"
    /\ Len(sys_argv) = 2
    /\ sys_argv[2] = <<11, 97, 160>>
    /\ device_name = <<97>>
    /\ calls[2].arg = <<97>>

\* the characters of the output before its last
Body(out) == SubSeq(out, 1, Len(out) - 1)

\* C8 as stated: on a successful run the output is a single line of text holding the
\* device name, the qualifier and the representation of the results.
C8_OutputIsOneLine ==
    pc = "done" =>
        /\ stdout # <<>>
        /\ stdout[Len(stdout)] = 10
        /\ \A i \in 1..Len(Body(stdout)) : stdout[i] # 10

\* C8 amended: on a successful run the output is what one print call writes: the greeting
\* with the device name, and the "virtual" qualifier when the handle's qam is a QVM,
\* ending in a newline; then a space, the printed representation of the results and a
\* final newline.  The results start on the line after the greeting.
C8_OutputIsGreetingThenResults ==
    pc = "done" =>
        LET first == (IF qc.qam = "QVM" THEN VirtualPrefix ELSE PlainPrefix)
                         \o device_name \o GreetsYouWith
        IN  /\ stdout = first \o <<10, 32>> \o results.str \o <<10>>
            /\ Cardinality({i \in 1..Len(stdout) : stdout[i] = 10}) >= 2

C8_Witness ==
    /\ pc = "done"
    /\ qc.qam = "QVM"
    /\ device_name = <<97>>
    /\ results.str = <<82, 49>>
    /\ SubSeq(stdout, Len(stdout) - 4, Len(stdout)) = <<10, 32, 82, 49, 10>>

\* C9: the calls occur in the order registry query, get_qc, compile, run, print, each at
\* most once; in a successful run compile and run are each called exactly once, compile
\* is given the fully built, shot-wrapped circuit, run is given exactly what compile
\* returned, and what is printed is exactly what run returned.
C9_CallOrderAndDataFlow ==
    /\ IsPrefix(CallFns, FlowOrder)
    /\ pc = "done" =>
          /\ CallFns = FlowOrder
          /\ calls[3].arg = program
          /\ program.num_shots = shots
          /\ CountOp(program.instructions, "MEASURE") = program.instructions[2].size
          /\ calls[4].arg = calls[3].ret
          /\ calls[4].arg = compiled_program
          /\ calls[5].arg = calls[4].ret
          /\ SubSeq(stdout, Len(stdout) - Len(calls[4].ret.str), Len(stdout) - 1)
                = calls[4].ret.str

C9_Witness ==
    /\ pc = "done"
    /\ CallFns = FlowOrder
    /\ calls[4].arg = [tag |-> "executable", program |-> program]
    /\ calls[4].ret.str = <<82, 48>>

\* a step of the main flow
MainFlowStep == pc' # pc

\* C10: no step of hello_qmi, started from the command line or as a function, invokes
\* get_active_lattice, and the handle is resolved for the device name given, whatever
\* the probe returned.
C10_ProbeNotWired ==
    [][MainFlowStep =>
          /\ probe' = probe
          /\ qc' # NoneValue => qc'.name = device_name]_vars

C10_Witness ==
    /\ pc = "done"
    /\ probe.called
    /\ probe.outcome.value = [tag |-> "str", chars |-> <<97>>]
    /\ device_name = <<98>>
    /\ qc.name = <<98>>

====
